---- MODULE Spec2Model ----
(***************************************************************************)
(* Messaging delivery and session model of backend/app.js (express +       *)
(* socket.io + mongoose) and of the socket life cycle of frontend/App.js.  *)
(*                                                                         *)
(* Server state: whether the process runs, the socket.io sockets with      *)
(* their userId, the sockets between io.use and the 'connection' callback, *)
(* the room membership, the Message collection, the saves in flight (a     *)
(* handler suspended at `await msg.save()`), the 'message' events each     *)
(* socket has received, and the last HTTP response of POST /messages.      *)
(* Client state: the screen, the token, the requests in flight, the socket *)
(* held in socketRef, its send buffer and the events that reached the      *)
(* server.                                                                 *)
(*                                                                         *)
(* Four specifications share the actions:                                  *)
(*   Spec         delivery: sockets connect and disconnect while messages  *)
(*                are sent over both transports;                           *)
(*   StoreSpec    ordering: the clock advances between the sends;          *)
(*   BacklogSpec  the collection starts one message short of the limit of  *)
(*                the history fetch;                                       *)
(*   ClientSpec   the screens and the socket of the mobile client.         *)
(* media_url is carried like text and is left out.                         *)
(***************************************************************************)
EXTENDS Integers, Sequences, FiniteSets, TLC

\* ---------------------------------------------------------------- bounds
\* number of send requests (HTTP or socket) issued in one behaviour
MaxSends == 2
\* number of times Date.now() advances in one behaviour
MaxClock == 1
\* number of 'sendMessage' events the mobile client emits in one behaviour
MaxEmits == 2
\* length of the mobile client's local message list
MaxShown == 3
\* login / signup requests the mobile client has in flight at once
MaxLogins == 2
\* history fetches of openChat the mobile client has in flight at once
MaxFetches == 2

\* ------------------------------------------------------------- constants
\* .limit(1000) of GET /messages/:userId
HistoryLimit == 1000

Users == {"u1", "u2"}
\* JavaScript `undefined`: no socket.userId, no payload.from
NoUser == "undefined"
SocketIds == {"c1", "c2"}
Texts == {"hi"}
\* payload.from of a 'sendMessage' event: absent, or a claimed sender
Froms == {NoUser, "u1"}

\* A bearer credential: absent, or a JWT that is valid, malformed, expired or
\* signed with another secret; every JWT carries an id claim.
Tokens ==
  {[kind |-> "missing", id |-> NoUser]}
    \cup {[kind |-> k, id |-> u] : k \in {"valid", "malformed", "expired", "badsig"}, u \in Users}

\* the token state of the mobile client: null, or a token string of a
\* login / signup answer
NoToken == "null"
ClientTokens == {"T1", "T2"}

VARIABLES
  listening,  \* the server process runs
  sockets,    \* socket id -> "new" | socket.userId (NoUser: anonymous) | "closed"
  accepted,   \* sockets past io.use whose 'connection' callback has not run yet
  rooms,      \* room name (a user id) -> set of socket ids joined to it
  inbox,      \* socket id -> sequence of message ids pushed as 'message' events
  messages,   \* the Message collection, in the order the saves completed
  saving,     \* handlers suspended in `await save()`
  now,        \* Date.now()
  nextId,     \* next _id a `new Message()` gets
  lastRes,    \* the outcome of the last completed POST /messages
  screen,     \* client: 'auth' | 'feed' | 'chat'
  token,      \* client: token state
  logins,     \* client: login / signup requests awaiting their answer
  socketRef,  \* client: state of socketRef.current
  sendBuffer, \* client: events buffered by socketRef.current while not connected
  emitted,    \* client: 'sendMessage' events emitted on socketRef.current
  arrived,    \* client: 'sendMessage' events that reached the server
  shown,      \* client: length of the local `messages` list
  chatWith,   \* client: the user the chat screen talks to ('' at first)
  fetches     \* client: openChat calls awaiting their history fetch

serverVars == <<listening, sockets, accepted, rooms, inbox, messages, saving, now,
                nextId, lastRes>>
clientVars == <<screen, token, logins, socketRef, sendBuffer, emitted, arrived, shown,
                chatWith, fetches>>
vars == <<listening, sockets, accepted, rooms, inbox, messages, saving, now, nextId,
          lastRes, screen, token, logins, socketRef, sendBuffer, emitted, arrived,
          shown, chatWith, fetches>>

\* ------------------------------------------------------------ identity
\* jwt.verify(token, JWT_SECRET): the decoded id, or NoUser where it throws
jwtVerify(tok) == IF tok.kind = "valid" THEN tok.id ELSE NoUser

\* authMiddleware: the request goes on (next()) with req.userId, or gets a 401
authMiddleware(tok) ==
  IF tok.kind = "missing" THEN NoUser ELSE jwtVerify(tok)

\* io.use that decodes the token without verifying it (jwt.decode)
ioUseUserId_Decode(tok) == tok.id

\* io.use: socket.userId after the middleware; next() is called in every case
ioUseUserId(tok) ==
  IF tok.kind = "missing" THEN NoUser ELSE jwtVerify(tok)

\* ------------------------------------------------------------ messages
\* a document built with sender and receiver exchanged
NewMessage_Swapped(sender, receiver, text) ==
  [id |-> nextId, sender |-> receiver, receiver |-> sender, text |-> text,
   createdAt |-> now]

\* new Message({sender, receiver, text}): _id and the createdAt default
\* (Date.now) are set when the document is constructed
NewMessage(sender, receiver, text) ==
  [id |-> nextId, sender |-> sender, receiver |-> receiver, text |-> text,
   createdAt |-> now]

\* the $or filter of GET /messages/:userId
MessageFilter(m, userId, other) ==
  \/ m.sender = userId /\ m.receiver = other
  \/ m.sender = other /\ m.receiver = userId

\* the positions of an ascending sequence that share their createdAt with
\* another position
Ties(s) ==
  {i \in DOMAIN s : \/ i > 1 /\ s[i - 1].createdAt = s[i].createdAt
                    \/ i < Len(s) /\ s[i + 1].createdAt = s[i].createdAt}

\* the arrangements of an ascending sequence that keep it ascending: the
\* positions in `tied` exchange their documents among equal createdAt
Arrangements(asc, tied) ==
  {[i \in DOMAIN asc |-> IF i \in tied THEN asc[p[i]] ELSE asc[i]] :
     p \in {q \in [tied -> tied] :
              /\ \A i \in tied, j \in tied : q[i] = q[j] => i = j
              /\ \A i \in tied : asc[q[i]].createdAt = asc[i].createdAt}}

\* a find without the .sort: collection order
SortByCreatedAt_None(s) == {s}

\* .sort({ createdAt: 1 }): the results the sort can give. They are ascending
\* in createdAt; createdAt is not unique and the sort has no other key, so
\* documents with equal createdAt come in any order. (The singleton sets bind
\* the sorted sequence and its ties once.)
SortByCreatedAt(s) ==
  UNION {UNION {Arrangements(asc, tied) : tied \in {Ties(asc)}} :
           asc \in {SortSeq(s, LAMBDA a, b : a.createdAt < b.createdAt)}}

\* .limit(1000)
Limit(s) == SubSeq(s, 1, IF Len(s) < HistoryLimit THEN Len(s) ELSE HistoryLimit)

\* GET /messages/:userId for the authenticated userId: the responses the
\* request can get
History(userId, other) ==
  {Limit(h) :
     h \in SortByCreatedAt(SelectSeq(messages, LAMBDA m : MessageFilter(m, userId, other)))}

\* ------------------------------------------------------------ socket.io
RoomMembers(room) == IF room \in DOMAIN rooms THEN rooms[room] ELSE {}

\* io.to(room).emit('message', m): one event to every socket in the room
Emit(inb, room, m) ==
  [c \in SocketIds |-> IF c \in RoomMembers(room) THEN Append(inb[c], m.id) ELSE inb[c]]

\* socket.join(String(socket.userId))
Join(c, userId) ==
  [r \in Users |-> IF r = userId THEN rooms[r] \cup {c} ELSE rooms[r]]

\* a disconnect that leaves the room membership as it is
LeaveAll_Nothing(c) == rooms

\* a disconnecting socket leaves every room it is in
LeaveAll(c) == [r \in Users |-> rooms[r] \ {c}]

\* payload.from || socket.userId
SocketSender_PayloadFirst(userId, from) == IF from # NoUser THEN from ELSE userId

\* sender of a socket-submitted message: socket.userId || payload.from
SocketSender(userId, from) == IF userId # NoUser THEN userId ELSE from

\* ------------------------------------------------------- server actions
\* io.use: the middleware sets socket.userId when the token verifies and calls
\* next() whatever the token is. socket.io calls the 'connection' callback
\* later, from process.nextTick.
IoUse(c, tok) ==
  /\ listening
  /\ sockets[c] = "new"
  /\ sockets' = [sockets EXCEPT ![c] = ioUseUserId(tok)]
  /\ accepted' = accepted \cup {c}
  /\ UNCHANGED <<listening, rooms, inbox, messages, saving, now, nextId, lastRes>>
  /\ UNCHANGED clientVars

\* io.on('connection'): a socket with a userId joins the user's room; the
\* 'sendMessage' and 'disconnect' listeners are registered
IoConnection(c) ==
  /\ listening
  /\ c \in accepted
  /\ accepted' = accepted \ {c}
  /\ rooms' = IF sockets[c] # NoUser THEN Join(c, sockets[c]) ELSE rooms
  /\ UNCHANGED <<listening, sockets, inbox, messages, saving, now, nextId, lastRes>>
  /\ UNCHANGED clientVars

\* socket.on('disconnect', () => {}): socket.io takes the socket out of its rooms
Disconnect(c) ==
  /\ listening
  /\ c \notin accepted
  /\ sockets[c] \in Users \cup {NoUser}
  /\ sockets' = [sockets EXCEPT ![c] = "closed"]
  /\ rooms' = LeaveAll(c)
  /\ UNCHANGED <<listening, accepted, inbox, messages, saving, now, nextId, lastRes>>
  /\ UNCHANGED clientVars

\* A rejection nobody handles ends the process (node >= 15; nothing in the
\* source listens to 'unhandledRejection'): every connection and room is gone
\* and the handlers suspended in a save never resume. The collection is
\* MongoDB's and stays.
ProcessExit ==
  /\ listening' = FALSE
  /\ sockets' = [c \in SocketIds |-> IF sockets[c] = "new" THEN "new" ELSE "closed"]
  /\ accepted' = {}
  /\ rooms' = [r \in Users |-> {}]
  /\ saving' = {}
  /\ UNCHANGED <<inbox, messages, now, nextId>>

\* app.post('/messages') up to `await msg.save()`
PostMessages(tok, receiverId, text) ==
  /\ listening
  /\ nextId <= MaxSends
  /\ authMiddleware(tok) # NoUser
  /\ saving' = saving \cup
       {[transport |-> "http", userId |-> authMiddleware(tok), from |-> NoUser,
         to |-> receiverId, text |-> text,
         msg |-> NewMessage(authMiddleware(tok), receiverId, text)]}
  /\ nextId' = nextId + 1
  /\ UNCHANGED <<listening, sockets, accepted, rooms, inbox, messages, now, lastRes>>
  /\ UNCHANGED clientVars

\* app.post('/messages') after a save that succeeded: one emit, then res.json
PostMessagesSaved(t) ==
  /\ listening
  /\ t \in saving /\ t.transport = "http"
  /\ saving' = saving \ {t}
  /\ messages' = Append(messages, t.msg)
  /\ inbox' = Emit(inbox, t.to, t.msg)
  /\ lastRes' = [id |-> t.msg.id, status |-> "200"]
  /\ UNCHANGED <<listening, sockets, accepted, rooms, now, nextId>>
  /\ UNCHANGED clientVars

\* app.post('/messages') after a save that rejected: the handler has no
\* try/catch, so it sends nothing itself. What follows depends on the express
\* and node the server is installed with (the source pins neither): express 5
\* hands the rejection to its error handler, which answers 500; express 4
\* ignores the handler's promise, the request stays without a response and the
\* rejection is unhandled, which node < 15 only warns about and node >= 15
\* ends the process for.
PostMessagesFailed(t) ==
  /\ listening
  /\ t \in saving /\ t.transport = "http"
  /\ \/ /\ lastRes' = [id |-> t.msg.id, status |-> "500"]
        /\ saving' = saving \ {t}
        /\ UNCHANGED <<listening, sockets, accepted, rooms, inbox, messages, now, nextId>>
     \/ /\ lastRes' = [id |-> t.msg.id, status |-> "none"]
        /\ saving' = saving \ {t}
        /\ UNCHANGED <<listening, sockets, accepted, rooms, inbox, messages, now, nextId>>
     \/ /\ lastRes' = [id |-> t.msg.id, status |-> "none"]
        /\ ProcessExit
  /\ UNCHANGED clientVars

\* socket.on('sendMessage') up to `await message.save()`
SendMessage(c, from, to, text) ==
  /\ listening
  /\ nextId <= MaxSends
  /\ c \notin accepted
  /\ sockets[c] \in Users \cup {NoUser}
  /\ saving' = saving \cup
       {[transport |-> "socket", userId |-> sockets[c], from |-> from,
         to |-> to, text |-> text,
         msg |-> NewMessage(SocketSender(sockets[c], from), to, text)]}
  /\ nextId' = nextId + 1
  /\ UNCHANGED <<listening, sockets, accepted, rooms, inbox, messages, now, lastRes>>
  /\ UNCHANGED clientVars

\* socket.on('sendMessage') after a save that succeeded: two emits
SendMessageSaved(t) ==
  /\ listening
  /\ t \in saving /\ t.transport = "socket"
  /\ saving' = saving \ {t}
  /\ messages' = Append(messages, t.msg)
  /\ inbox' = Emit(Emit(inbox, t.to, t.msg), t.msg.sender, t.msg)
  /\ UNCHANGED <<listening, sockets, accepted, rooms, now, nextId, lastRes>>
  /\ UNCHANGED clientVars

\* socket.on('sendMessage') after a save that rejected: nothing is emitted and
\* the listener's promise rejects with nobody handling it, which node < 15
\* only warns about and node >= 15 ends the process for
SendMessageFailed(t) ==
  /\ listening
  /\ t \in saving /\ t.transport = "socket"
  /\ \/ /\ saving' = saving \ {t}
        /\ UNCHANGED <<listening, sockets, accepted, rooms, inbox, messages, now, nextId>>
     \/ ProcessExit
  /\ UNCHANGED lastRes
  /\ UNCHANGED clientVars

\* Date.now() advances
Tick ==
  /\ now < MaxClock
  /\ now' = now + 1
  /\ UNCHANGED <<listening, sockets, accepted, rooms, inbox, messages, saving, nextId,
                 lastRes>>
  /\ UNCHANGED clientVars

\* ------------------------------------------------------- client actions
\* useEffect(..., [token, screen]), body: on the feed with a token, a new
\* socket is put in socketRef.current (it starts connecting, its buffer empty)
EffectSocket(tok, scr, ref) == IF tok # NoToken /\ scr = "feed" THEN "connecting" ELSE ref

\* the cleanup the previous run of the effect returned:
\* () => socketRef.current.disconnect(), only when that run created a socket
EffectCleanup(tok, scr, ref) == IF tok # NoToken /\ scr = "feed" THEN "disconnected" ELSE ref

\* socketRef.current once the component has rendered with tok and scr: the
\* effect runs only when one of its dependencies [token, screen] changed
RenderSocket(tok, scr) ==
  IF <<tok, scr>> = <<token, screen>> THEN socketRef
  ELSE EffectSocket(tok, scr, EffectCleanup(token, screen, socketRef))

\* the events buffered by socketRef.current after that render
RenderBuffer(tok, scr) ==
  IF <<tok, scr>> # <<token, screen>> /\ tok # NoToken /\ scr = "feed" THEN 0 ELSE sendBuffer

\* the Login / Sign up button of the auth screen: login() / signup() up to
\* `await fetch(...)`
LoginPressed ==
  /\ screen = "auth"
  /\ logins < MaxLogins
  /\ logins' = logins + 1
  /\ UNCHANGED <<screen, token, socketRef, sendBuffer, arrived, emitted, shown,
                 chatWith, fetches>>
  /\ UNCHANGED serverVars

\* login() / signup() answered with a token, on whatever screen is shown then:
\* setToken(data.token); setUser(data.user); setScreen('feed')
Login(tok) ==
  /\ logins > 0
  /\ logins' = logins - 1
  /\ token' = tok
  /\ screen' = "feed"
  /\ socketRef' = RenderSocket(tok, "feed")
  /\ sendBuffer' = RenderBuffer(tok, "feed")
  /\ UNCHANGED <<arrived, emitted, shown, chatWith, fetches>>
  /\ UNCHANGED serverVars

\* login() / signup() answered without a token, or the fetch rejected: alert
LoginRefused ==
  /\ logins > 0
  /\ logins' = logins - 1
  /\ UNCHANGED <<screen, token, socketRef, sendBuffer, arrived, emitted, shown,
                 chatWith, fetches>>
  /\ UNCHANGED serverVars

\* the socket in socketRef.current finishes its handshake: 'connect' fires and
\* the client flushes what it buffered
SocketConnect ==
  /\ socketRef = "connecting"
  /\ socketRef' = "connected"
  /\ arrived' = arrived + sendBuffer
  /\ sendBuffer' = 0
  /\ UNCHANGED <<screen, token, logins, emitted, shown, chatWith, fetches>>
  /\ UNCHANGED serverVars

\* openChat(otherUserId) up to `await fetch(...)`: setChatWith; setScreen('chat');
\* the effect's cleanup runs, its body creates nothing
OpenChat(otherUserId) ==
  /\ screen = "feed"
  /\ fetches < MaxFetches
  /\ chatWith' = otherUserId
  /\ screen' = "chat"
  /\ socketRef' = RenderSocket(token, "chat")
  /\ sendBuffer' = RenderBuffer(token, "chat")
  /\ fetches' = fetches + 1
  /\ UNCHANGED <<token, logins, arrived, emitted, shown>>
  /\ UNCHANGED serverVars

\* one openChat call after its fetch, on whatever screen is shown then:
\* setMessages(data) replaces the local list with the n messages of the answer
OpenChatLoaded(n) ==
  /\ fetches > 0
  /\ fetches' = fetches - 1
  /\ shown' = n
  /\ UNCHANGED <<screen, token, logins, socketRef, sendBuffer, arrived, emitted, chatWith>>
  /\ UNCHANGED serverVars

\* one openChat call whose fetch rejected: openChat has no try/catch and the
\* local list stays
OpenChatFailed ==
  /\ fetches > 0
  /\ fetches' = fetches - 1
  /\ UNCHANGED <<screen, token, logins, socketRef, sendBuffer, arrived, emitted, shown,
                 chatWith>>
  /\ UNCHANGED serverVars

\* the "Open Chat (manual)" button: setScreen('chat')
OpenChatManual ==
  /\ screen = "feed"
  /\ screen' = "chat"
  /\ socketRef' = RenderSocket(token, "chat")
  /\ sendBuffer' = RenderBuffer(token, "chat")
  /\ UNCHANGED <<token, logins, arrived, emitted, shown, chatWith, fetches>>
  /\ UNCHANGED serverVars

\* "Back to Feed": setScreen('feed'); the effect's body runs again
BackToFeed ==
  /\ screen = "chat"
  /\ screen' = "feed"
  /\ socketRef' = RenderSocket(token, "feed")
  /\ sendBuffer' = RenderBuffer(token, "feed")
  /\ UNCHANGED <<token, logins, arrived, emitted, shown, chatWith, fetches>>
  /\ UNCHANGED serverVars

\* sendMessage(text) of the chat screen: emit on socketRef.current (sent at once
\* when connected, buffered otherwise) and append to the local list
ClientSendMessage ==
  /\ screen = "chat"
  /\ emitted < MaxEmits
  /\ socketRef # "null"
  /\ emitted' = emitted + 1
  /\ IF socketRef = "connected"
       THEN arrived' = arrived + 1 /\ UNCHANGED sendBuffer
       ELSE sendBuffer' = sendBuffer + 1 /\ UNCHANGED arrived
  /\ shown' = shown + 1
  /\ UNCHANGED <<screen, token, logins, socketRef, chatWith, fetches>>
  /\ UNCHANGED serverVars

\* socketRef.current.on('message', m => setMessages(prev => [...prev, m]))
ClientOnMessage ==
  /\ socketRef = "connected"
  /\ shown < MaxShown
  /\ shown' = shown + 1
  /\ UNCHANGED <<screen, token, logins, socketRef, sendBuffer, arrived, emitted, chatWith,
                 fetches>>
  /\ UNCHANGED serverVars

\* ------------------------------------------------------- specifications
ClientIdle ==
  /\ screen = "auth" /\ token = NoToken /\ logins = 0 /\ socketRef = "null"
  /\ sendBuffer = 0 /\ arrived = 0 /\ emitted = 0 /\ shown = 0
  /\ chatWith = "" /\ fetches = 0

ServerIdle ==
  /\ listening = TRUE
  /\ accepted = {}
  /\ inbox = [c \in SocketIds |-> <<>>]
  /\ saving = {}
  /\ now = 0
  /\ nextId = 1
  /\ lastRes = [id |-> 0, status |-> "-"]

NoSessions ==
  /\ sockets = [c \in SocketIds |-> "new"]
  /\ rooms = [r \in Users |-> {}]

\* one socket of u1 and one anonymous socket are connected; u2 has none
TwoSessions ==
  /\ sockets = [c \in SocketIds |-> IF c = "c1" THEN "u1" ELSE NoUser]
  /\ rooms = [r \in Users |-> IF r = "u1" THEN {"c1"} ELSE {}]

\* a collection that already holds HistoryLimit - 1 messages from u1 to u2,
\* each created at a clock value of its own before the first of this behaviour
Backlog ==
  [i \in 1..(HistoryLimit - 1) |->
     [id |-> i - (HistoryLimit - 1), sender |-> "u1", receiver |-> "u2",
      text |-> "hi", createdAt |-> i - HistoryLimit]]

Sends ==
  \/ \E tok \in Tokens, r \in Users, x \in Texts : PostMessages(tok, r, x)
  \/ \E t \in saving : PostMessagesSaved(t)
  \/ \E t \in saving : PostMessagesFailed(t)
  \/ \E c \in SocketIds, f \in Froms, r \in Users, x \in Texts : SendMessage(c, f, r, x)
  \/ \E t \in saving : SendMessageSaved(t)
  \/ \E t \in saving : SendMessageFailed(t)

\* Delivery: sockets come and go while messages are sent; the sends of one
\* behaviour fall within one clock value (no emit reads createdAt).
Init == ServerIdle /\ NoSessions /\ messages = <<>> /\ ClientIdle

Next ==
  \/ \E c \in SocketIds, tok \in Tokens : IoUse(c, tok)
  \/ \E c \in SocketIds : IoConnection(c)
  \/ \E c \in SocketIds : Disconnect(c)
  \/ Sends

Spec == Init /\ [][Next]_vars

\* Store: the clock advances between sends; the sessions are those of
\* TwoSessions until they disconnect.
StoreInit == ServerIdle /\ TwoSessions /\ messages = <<>> /\ ClientIdle

StoreNext ==
  \/ \E c \in SocketIds : Disconnect(c)
  \/ Sends
  \/ Tick

StoreSpec == StoreInit /\ [][StoreNext]_vars

\* Backlog: sends to a collection that starts from the backlog, with the
\* sessions of TwoSessions
BacklogInit == ServerIdle /\ TwoSessions /\ messages = Backlog /\ ClientIdle

BacklogSpec == BacklogInit /\ [][Sends]_vars

\* Mobile client
ClientInit == ServerIdle /\ NoSessions /\ messages = <<>> /\ ClientIdle

ClientNext ==
  \/ LoginPressed
  \/ \E tok \in ClientTokens : Login(tok)
  \/ LoginRefused
  \/ SocketConnect
  \/ \E u \in Users : OpenChat(u)
  \/ \E n \in 0..MaxShown : OpenChatLoaded(n)
  \/ OpenChatFailed
  \/ OpenChatManual
  \/ BackToFeed
  \/ ClientSendMessage
  \/ ClientOnMessage

ClientSpec == ClientInit /\ [][ClientNext]_vars

\* ----------------------------------------------------------------- claims
Count(s, x) == Len(SelectSeq(s, LAMBDA e : e = x))

\* the open sockets authenticated as u: connected ('connection' has run) and
\* not disconnected
Live(u) == {c \in SocketIds : u \in Users /\ sockets[c] = u /\ c \notin accepted}

\* a step in which the save of t succeeds, or rejects
Completes(t) == t \in saving /\ t \notin saving' /\ Len(messages') = Len(messages) + 1
Fails(t) == t \in saving /\ t \notin saving' /\ messages' = messages

\* the sender a request asks for
RequestedSender(t) ==
  IF t.transport = "http" \/ t.userId # NoUser THEN t.userId ELSE t.from

PairMessages(ms, a, b) == {i \in DOMAIN ms : {ms[i].sender, ms[i].receiver} = {a, b}}

\* C1: every successful send, over HTTP or over the socket, pushes the message
\* to every live authenticated socket of the receiver and of the sender.
C1_PushToBothParties ==
  [][\A t \in saving : Completes(t) =>
       \A c \in Live(t.msg.receiver) \cup Live(t.msg.sender) :
         Count(inbox'[c], t.msg.id) >= 1]_vars

\* C2: a successful send adds exactly one record with the request's sender,
\* receiver and text, and the history fetched for the pair right after it holds
\* that record (once) whichever response the fetch gets, whatever else is in
\* flight.
C2_SendThenFetch ==
  [][\A t \in saving : Completes(t) =>
       /\ messages' = Append(messages, t.msg)
       /\ t.msg.sender = RequestedSender(t)
       /\ t.msg.receiver = t.to /\ t.msg.text = t.text
       /\ t.msg.sender \in Users =>
            \A h \in History(t.msg.sender, t.msg.receiver)' : Count(h, t.msg) = 1]_vars

\* C2 amended: the same, the fetch holding the record when the pair has at most
\* HistoryLimit messages after the send; and no step adds a record otherwise,
\* removes one or stores an _id twice.
C2_SendThenFetchWithinLimit ==
  [][/\ \A t \in saving : Completes(t) =>
          /\ messages' = Append(messages, t.msg)
          /\ t.msg.sender = RequestedSender(t)
          /\ t.msg.receiver = t.to /\ t.msg.text = t.text
          /\ \A i \in DOMAIN messages : messages[i].id # t.msg.id
          /\ (/\ t.msg.sender \in Users
              /\ Cardinality(PairMessages(messages', t.msg.sender, t.msg.receiver))
                   <= HistoryLimit)
               => \A h \in History(t.msg.sender, t.msg.receiver)' : Count(h, t.msg) = 1
     /\ \/ messages' = messages
        \/ \E t \in saving : Completes(t) /\ messages' = Append(messages, t.msg)
    ]_vars

\* C2 witness: the pair {u1, u2} holds exactly HistoryLimit messages, the last of
\* them sent in this behaviour and fetched, while a message between u2 and
\* itself (u2 has no live socket) was stored and is fetched too.
C2_Witness ==
  /\ Cardinality(PairMessages(messages, "u1", "u2")) = HistoryLimit
  /\ \E i \in DOMAIN messages :
       /\ messages[i].id >= 1 /\ {messages[i].sender, messages[i].receiver} = {"u1", "u2"}
       /\ \A h \in History("u1", "u2") : Count(h, messages[i]) = 1
  /\ \E i \in DOMAIN messages :
       /\ messages[i].sender = "u2" /\ messages[i].receiver = "u2"
       /\ \A h \in History("u2", "u2") : Count(h, messages[i]) = 1
  /\ Live("u2") = {}

\* C3: a send whose save fails leaves no record, pushes nothing, and over HTTP
\* answers with an error status.
C3_FailedSendFailsAsAWhole ==
  [][\A t \in saving : Fails(t) =>
       /\ inbox' = inbox
       /\ t.transport = "http" => lastRes' = [id |-> t.msg.id, status |-> "500"]]_vars

\* C4: no socket receives the 'message' push of one message more than once.
C4_AtMostOncePerConnection ==
  \A c \in SocketIds : \A i \in DOMAIN inbox[c] : Count(inbox[c], inbox[c][i]) = 1

\* C5: a socket-submitted message has the socket's userId as sender when the
\* socket has one, the payload's from otherwise; an anonymous socket's send
\* with a from is accepted.
C5_SenderIsSocketIdentity ==
  /\ \A t \in saving : t.transport = "socket" =>
       /\ t.userId # NoUser => t.msg.sender = t.userId
       /\ t.userId = NoUser => t.msg.sender = t.from
  /\ \A c \in SocketIds :
       (listening /\ sockets[c] = NoUser /\ c \notin accepted /\ nextId <= MaxSends) =>
         ENABLED SendMessage(c, "u1", "u2", "hi")

\* C5 witness: in flight are a message an anonymous socket sent under a claimed
\* sender, and one an authenticated socket sent with another user as from.
C5_Witness ==
  /\ \E t \in saving :
       t.transport = "socket" /\ t.userId = NoUser /\ t.from = "u1" /\ t.msg.sender = "u1"
  /\ \E t \in saving :
       t.transport = "socket" /\ t.userId = "u2" /\ t.from = "u1" /\ t.msg.sender = "u2"

\* C6: a socket whose token is missing, malformed, expired or wrongly signed is
\* accepted by the running server (the middleware passes it and the connection
\* callback follows), has no userId, is in no room and has received no
\* 'message' push.
C6_InvalidTokenIsAnonymous ==
  /\ \A tok \in Tokens : tok.kind # "valid" => ioUseUserId(tok) = NoUser
  /\ \A c \in SocketIds : (listening /\ sockets[c] = "new") =>
       \A tok \in Tokens : ENABLED IoUse(c, tok)
  /\ \A c \in accepted : ENABLED IoConnection(c)
  /\ \A c \in SocketIds : sockets[c] = NoUser =>
       inbox[c] = <<>> /\ \A r \in Users : c \notin rooms[r]

\* C6 witness: an anonymous socket is connected and has sent a message to u1,
\* which the socket of u1 received.
C6_Witness ==
  /\ sockets["c1"] = NoUser /\ sockets["c2"] = "u1" /\ accepted = {}
  /\ \E i \in DOMAIN messages :
       /\ messages[i].sender = NoUser /\ messages[i].receiver = "u1"
       /\ Count(inbox["c2"], messages[i].id) = 1

\* C7: the room of a user is exactly the open sockets authenticated as that
\* user; a push to a user reaches all of them and nothing else, a socket that
\* is new, not yet through its 'connection' callback or closed receives
\* nothing, and a connected anonymous socket can disconnect.
C7_RoomsAreLiveSessions ==
  /\ [](/\ \A u \in Users : rooms[u] = Live(u)
        /\ \A c \in SocketIds : (sockets[c] = NoUser /\ c \notin accepted) =>
             ENABLED Disconnect(c))
  /\ [][/\ \A c \in SocketIds : inbox'[c] # inbox[c] =>
             sockets[c] \in Users /\ c \notin accepted
        /\ \A t \in saving : Completes(t) =>
             /\ \A c \in Live(t.msg.receiver) : Count(inbox'[c], t.msg.id) >= 1
             /\ \A c \in SocketIds : Count(inbox'[c], t.msg.id) >= 1 =>
                  c \in Live(t.msg.receiver) \cup Live(t.msg.sender)]_vars

\* C7 witness: u1 had two sockets that both received a message; one has
\* disconnected and the other received the next message alone.
C7_Witness ==
  /\ sockets["c1"] = "u1" /\ sockets["c2"] = "closed"
  /\ rooms["u1"] = {"c1"}
  /\ Len(inbox["c1"]) = 2 /\ Len(inbox["c2"]) = 1
  /\ inbox["c1"][1] = inbox["c2"][1]

\* C8: the history of a pair is in the order in which the saves
\* completed.
C8_CompletionOrder ==
  \A a \in Users, b \in Users :
    \A h \in History(a, b) :
      h = Limit(SelectSeq(messages, LAMBDA m : MessageFilter(m, a, b)))

\* C8 amended: every response of the history fetch is ascending in createdAt,
\* the clock value at which the send was initiated: of two messages initiated
\* at different clock values the one initiated first comes first, whichever
\* save completed first.
C8_CreationOrder ==
  \A a \in Users, b \in Users :
    \A h \in History(a, b) :
      \A i \in DOMAIN h, j \in DOMAIN h : i < j =>
        /\ h[i].createdAt <= h[j].createdAt
        /\ h[i].id > h[j].id => h[i].createdAt = h[j].createdAt

\* C8 witness: two messages of u1 and u2 whose saves completed in the opposite
\* order of their initiation, fetched in the order of initiation.
C8_Witness ==
  /\ Len(messages) = 2
  /\ messages[1].id = 2 /\ messages[2].id = 1
  /\ messages[1].createdAt = 1 /\ messages[2].createdAt = 0
  /\ History("u1", "u2") = {<<messages[2], messages[1]>>}

\* C9: the history u fetches for v is the history v fetches for u, whichever
\* responses the two fetches get: the messages between the two in either
\* direction, ascending in createdAt, the first HistoryLimit of them.
C9_HistorySymmetric ==
  \A a \in Users, b \in Users :
    \A h \in History(a, b), g \in History(b, a) :
      LET pair == PairMessages(messages, a, b)
      IN /\ h = g
         /\ {h[i] : i \in DOMAIN h} \subseteq {messages[i] : i \in pair}
         /\ Len(h) = IF Cardinality(pair) < HistoryLimit THEN Cardinality(pair)
                     ELSE HistoryLimit
         /\ \A i \in DOMAIN h, j \in DOMAIN h : i < j =>
              h[i].createdAt <= h[j].createdAt /\ h[i] # h[j]

\* C10: whenever the chat screen is shown the socket in socketRef is connected,
\* and every 'sendMessage' the client emitted has reached the server.
C10_ChatSocketConnected ==
  /\ screen = "chat" => socketRef = "connected"
  /\ arrived = emitted
====
